---- MODULE Spec2Model ----
(***************************************************************************)
(* ascii2piet.py: conversion of ASCII-encoded Piet programs to images.     *)
(*                                                                         *)
(* A text is a sequence of character codes (0..127), a byte string a       *)
(* sequence of bytes (0..255), a colour a triple <<r, g, b>>.              *)
(***************************************************************************)
EXTENDS Integers, Sequences, FiniteSets, TLC

VARIABLES
    pc,            \* position of the program
    ascii_piet,    \* the text given to ascii_to_image or to the codec
    codel_size,    \* the codel_size argument of ascii_to_image
    text,          \* the codec's current text
    ops,           \* the codec functions applied to ascii_piet so far
    ascii_lines,   \* ascii_to_image: the padded lines (line 91)
    image_width,   \* ascii_to_image: line 85
    image_height,  \* ascii_to_image: line 86
    codels,        \* ascii_to_image: the row-major list of RGB triples
    img,           \* ascii_to_image: the returned image, or None
    bytestring,    \* the argument of xxd
    hexdump        \* the result of xxd

vars == <<pc, ascii_piet, codel_size, text, ops, ascii_lines, image_width,
          image_height, codels, img, bytestring, hexdump>>

----------------------------------------------------------------------------
(* Program constants (lines 14-26).                                        *)

HUE_MASK == 7
BLACK == 0
BLUE == 1
GREEN == 2
RED == 4
WHITE == 7
LIGHTNESS_MASK == 24
DARK == 0
NORMAL == 8
LIGHT == 16
NO_EOL_MASK == 32

(* Width of a row of the hex dump (lines 140, 142, 148), of its hex field  *)
(* (line 144) and of its offset (line 139).                                *)
ROW_BYTES == 16
HEX_FIELD == 40
OFFSET_DIGITS == 8

----------------------------------------------------------------------------
(* Bounds of the model.                                                    *)

MaxTextLen == 4      \* codec: longest sampled text
MaxImgLen == 3       \* ascii_to_image: longest sampled text
MaxLineLen == 5      \* ascii_to_image: longest line of a three-line text
MaxCodelSize == 3    \* ascii_to_image: largest codel_size
MaxFill == 18        \* xxd: longest run of a repeated byte
MaxTail == 2         \* xxd: longest free tail after the run

None == "None"
Unbound == "unbound"     \* a local variable not assigned yet
LF == 10                 \* "\n"
CR == 13                 \* "\r"
SPACE == 32              \* " "

----------------------------------------------------------------------------
(* Integer bit operations on naturals, and the str methods the program     *)
(* calls.                                                                  *)

RECURSIVE BitAnd(_, _)
BitAnd(a, b) ==
    IF a = 0 \/ b = 0 THEN 0
    ELSE (IF a % 2 = 1 /\ b % 2 = 1 THEN 1 ELSE 0) + 2 * BitAnd(a \div 2, b \div 2)

BitOr(a, b) == a + b - BitAnd(a, b)

\* a & ~m, for a >= 0
BitAndNot(a, m) == a - BitAnd(a, m)

Min(S) == CHOOSE x \in S : \A y \in S : x <= y

RECURSIVE Join(_)
Join(seqs) == IF seqs = <<>> THEN <<>> ELSE Head(seqs) \o Join(Tail(seqs))

SelectNonEmpty(seqs) == SelectSeq(seqs, LAMBDA l : l # <<>>)

\* The characters str.splitlines treats as line boundaries, among 0..127:
\* \n \v \f \r \x1c \x1d \x1e; \r\n is one boundary.
LineBoundaries == {10, 11, 12, 13, 28, 29, 30}

RECURSIVE splitlines(_)
splitlines(s) ==
    IF s = <<>> THEN <<>>
    ELSE LET n == Len(s)
             brk == {i \in 1..n : s[i] \in LineBoundaries}
         IN  IF brk = {} THEN <<s>>
             ELSE LET j == Min(brk)
                      k == IF s[j] = CR /\ j < n /\ s[j + 1] = LF THEN j + 1 ELSE j
                  IN  <<SubSeq(s, 1, j - 1)>> \o splitlines(SubSeq(s, k + 1, n))

\* str.rstrip(chars)
RECURSIVE rstrip(_, _)
rstrip(s, chars) ==
    IF s # <<>> /\ s[Len(s)] \in chars THEN rstrip(SubSeq(s, 1, Len(s) - 1), chars)
    ELSE s

\* The characters str.rstrip() strips when given no argument, among 0..127.
Whitespace == {9, 10, 11, 12, 13, 28, 29, 30, 31, 32}

\* variant: padding on the left
ljust_PadLeft(s, width, fill) ==
    IF Len(s) >= width THEN s ELSE [i \in 1..(width - Len(s)) |-> fill] \o s

\* str.ljust(width, fill) and str.rjust(width, fill)
ljust(s, width, fill) ==
    IF Len(s) >= width THEN s ELSE s \o [i \in 1..(width - Len(s)) |-> fill]

rjust(s, width, fill) ==
    IF Len(s) >= width THEN s ELSE [i \in 1..(width - Len(s)) |-> fill] \o s

----------------------------------------------------------------------------
(* encode_newlines (lines 29-45)                                           *)

\* variant: the shift of line 42 left out
encode_last_NoShift(last_charcode) == BitAndNot(last_charcode, NO_EOL_MASK)

\* variant: the mask of line 38 left out
encode_last_KeepBit(last_charcode) ==
    IF last_charcode < 32 THEN last_charcode + 64 ELSE last_charcode

\* variant: line 38 masking bit 4 instead of bit 5
encode_last_WrongBit(last_charcode) ==
    LET c == BitAndNot(last_charcode, 16)
    IN  IF c < 32 THEN c + 64 ELSE c

\* lines 37-42: the character code that replaces the last one of a line
encode_last(last_charcode) ==
    LET c == BitAndNot(last_charcode, NO_EOL_MASK)
    IN  IF c < 32 THEN c + 64 ELSE c

\* line 44
encode_line(line) == SubSeq(line, 1, Len(line) - 1) \o <<encode_last(line[Len(line)])>>

encode_newlines(s) ==
    LET ascii_lines_ == splitlines(s)
        kept == SelectNonEmpty(ascii_lines_)
        encoded_lines == [i \in 1..Len(kept) |-> encode_line(kept[i])]
    IN  Join(encoded_lines)

----------------------------------------------------------------------------
(* decode_newlines (lines 48-66)                                           *)

\* variant: line 64 without setting the noEol bit
decode_char_NoSet(char) ==
    IF char = LF THEN <<>>
    ELSE IF BitAnd(char, NO_EOL_MASK) # 0 THEN <<char>>
    ELSE <<char, LF>>

\* lines 52-64: what one character adds to piet_with_newlines
decode_char(char) ==
    IF char = LF THEN <<>>
    ELSE IF BitAnd(char, NO_EOL_MASK) # 0 THEN <<char>>
    ELSE <<BitOr(char, NO_EOL_MASK), LF>>

decode_newlines(s) ==
    LET pieces == [i \in 1..Len(s) |-> decode_char(s[i])]
    IN  rstrip(Join(pieces), {LF})

----------------------------------------------------------------------------
(* ascii_to_image (lines 69-123)                                           *)

Max(S) == CHOOSE x \in S : \A y \in S : x >= y

\* variant: max(..., default=0)
max_line_len_Zero(lines) ==
    IF lines = <<>> THEN [raised |-> FALSE, value |-> 0]
    ELSE [raised |-> FALSE, value |-> Max({Len(lines[i]) : i \in 1..Len(lines)})]

\* line 85: max(len(line) for line in ascii_lines); max() of an empty
\* sequence raises ValueError
max_line_len(lines) ==
    IF lines = <<>> THEN [raised |-> TRUE, value |-> 0]
    ELSE [raised |-> FALSE, value |-> Max({Len(lines[i]) : i \in 1..Len(lines)})]

\* variant: the dark level of line 102 taken for the normal one
intensities_of_DarkAsNormal(lightness, intensities) ==
    IF lightness = DARK THEN <<0, 255>>
    ELSE IF lightness = NORMAL THEN <<0, 255>>
    ELSE IF lightness = LIGHT THEN <<192, 255>>
    ELSE intensities

\* lines 101-106: the binding of intensities after the if/elif chain; when no
\* branch is taken the variable keeps the binding it had
intensities_of(lightness, intensities) ==
    IF lightness = DARK THEN <<0, 192>>
    ELSE IF lightness = NORMAL THEN <<0, 255>>
    ELSE IF lightness = LIGHT THEN <<192, 255>>
    ELSE intensities

\* intensities[b] for a bool b: False is index 0, True index 1
Pick(intensities, b) == IF b THEN intensities[2] ELSE intensities[1]

\* lines 95-112: one iteration of the loop body; reading an unbound
\* intensities at line 110 raises UnboundLocalError
codel_rgb(charcode, intensities) ==
    LET hue == BitAnd(charcode, HUE_MASK)
        lightness0 == BitAnd(charcode, LIGHTNESS_MASK)
        lightness == IF hue = WHITE \/ hue = BLACK THEN NORMAL ELSE lightness0
        bound == intensities_of(lightness, intensities)
    IN  IF bound = Unbound
        THEN [raised |-> TRUE, intensities |-> bound, rgb |-> <<>>]
        ELSE [raised |-> FALSE, intensities |-> bound,
              rgb |-> <<Pick(bound, BitAnd(hue, RED) # 0),
                        Pick(bound, BitAnd(hue, GREEN) # 0),
                        Pick(bound, BitAnd(hue, BLUE) # 0)>>]

\* lines 92-113: the loops over the characters of the padded lines, in
\* row-major order, from the binding of intensities they start with
RECURSIVE convert(_, _)
convert(chars, intensities) ==
    IF chars = <<>> THEN [raised |-> FALSE, codels |-> <<>>]
    ELSE LET c == codel_rgb(Head(chars), intensities)
         IN  IF c.raised THEN [raised |-> TRUE, codels |-> <<>>]
             ELSE LET rest == convert(Tail(chars), c.intensities)
                  IN  [raised |-> rest.raised,
                       codels |-> IF rest.raised THEN <<>> ELSE <<c.rgb>> \o rest.codels]

\* lines 114-115: Image.new("RGB", (width, height)) and putdata(codels)
new_image(width, height, data) == [size |-> <<width, height>>, data |-> data]

\* variant: line 121 without the factor
real_size_HeightUnscaled(width, height, size) == <<width * size, height>>

\* lines 120-121
real_size(width, height, size) == <<width * size, height * size>>

\* line 122: Image.resize(size, resample=Image.NEAREST): the pixel (x, y) of
\* the result is the source pixel under the centre of (x, y),
\* floor((x + 1/2) * w / W), floor((y + 1/2) * h / H)
resize(im, size) ==
    LET w == im.size[1]
        h == im.size[2]
        W == size[1]
        H == size[2]
        src(i) == LET x == (i - 1) % W
                      y == (i - 1) \div W
                      sx == ((2 * x + 1) * w) \div (2 * W)
                      sy == ((2 * y + 1) * h) \div (2 * H)
                  IN  im.data[sy * w + sx + 1]
    IN  [size |-> size, data |-> [i \in 1..(W * H) |-> src(i)]]

Raised(exception) ==
    [outcome |-> exception, ascii_lines |-> <<>>, image_width |-> 0,
     image_height |-> 0, codels |-> <<>>, img |-> None]

\* the whole function: the exception it raises, or its locals when it returns
\* and the image returned
ascii_to_image(s, size) ==
    LET encoded == encode_newlines(s)                             \* line 73
        decoded == decode_newlines(encoded)                       \* line 79
        lines == splitlines(decoded)                              \* line 84
        width == max_line_len(lines)                              \* line 85
        height == Len(lines)                                      \* line 86
        padded == [i \in 1..Len(lines) |-> ljust(lines[i], width.value, SPACE)]
        conv == convert(Join(padded), Unbound)                    \* lines 92-113
        small == new_image(width.value, height, conv.codels)
    IN  IF width.raised THEN Raised("ValueError")
        ELSE IF conv.raised THEN Raised("UnboundLocalError")
        ELSE [outcome |-> "returned", ascii_lines |-> padded,
              image_width |-> width.value, image_height |-> height,
              codels |-> conv.codels,
              img |-> resize(small, real_size(width.value, height, size))]

----------------------------------------------------------------------------
(* padded_hex (lines 126-131) and xxd (lines 134-149)                      *)

\* the character of a hexadecimal digit: 0-9, a-f
HexChar(d) == IF d < 10 THEN 48 + d ELSE 87 + d

\* hex(num)[2:]
RECURSIVE hex(_)
hex(num) == IF num < 16 THEN <<HexChar(num)>> ELSE hex(num \div 16) \o <<HexChar(num % 16)>>

padded_hex(num, width) == IF width > 0 THEN rjust(hex(num), width, 48) ELSE hex(num)

\* s[i:j], 0 <= i <= j
Slice(s, i, j) == SubSeq(s, i + 1, IF j < Len(s) THEN j ELSE Len(s))

\* lines 141-143
hexcodes(block) ==
    Join([g \in 1..(ROW_BYTES \div 2) |->
            LET pair == Slice(block, 2 * (g - 1), 2 * g)
            IN  Join([b \in 1..Len(pair) |-> padded_hex(pair[b], 2)]) \o <<SPACE>>])

\* lines 145-146
ascii_of(block) ==
    [b \in 1..Len(block) |-> IF 32 <= block[b] /\ block[b] <= 126 THEN block[b] ELSE 46]

\* lines 139-147: what the iteration at offset i adds to hexdump
xxd_row(bytes, i) ==
    LET block == Slice(bytes, i, i + ROW_BYTES)
    IN  padded_hex(i, OFFSET_DIGITS) \o <<58, SPACE>>
            \o ljust(hexcodes(block), HEX_FIELD, SPACE)
            \o <<SPACE>> \o ascii_of(block) \o <<LF>>

\* lines 137-148
RECURSIVE xxd_rows(_, _)
xxd_rows(bytes, i) ==
    IF i < Len(bytes) THEN xxd_row(bytes, i) \o xxd_rows(bytes, i + ROW_BYTES) ELSE <<>>

\* line 149: hexdump.rstrip()
xxd(bytes) == rstrip(xxd_rows(bytes, 0), Whitespace)

----------------------------------------------------------------------------
(* Inputs.                                                                 *)

Texts(A, n) == UNION {[1..k -> A] : k \in 0..n}

AllChars == 0..127

SingleCharTexts == {<<c>> : c \in AllChars}

\* \n \v \r  !  A  a
CodecChars == {10, 11, 13, 33, 65, 97}

CodecInputs == Texts(CodecChars, MaxTextLen) \cup SingleCharTexts

----------------------------------------------------------------------------
(* The codec: encode_newlines and decode_newlines applied to a text, each  *)
(* at most once, in either order.                                          *)

InitCodec ==
    /\ pc = "codec"
    /\ ascii_piet \in CodecInputs
    /\ text = ascii_piet
    /\ ops = <<>>
    /\ codel_size = 1
    /\ ascii_lines = <<>>
    /\ image_width = 0
    /\ image_height = 0
    /\ codels = <<>>
    /\ img = None
    /\ bytestring = <<>>
    /\ hexdump = None

EncodeNewlines ==
    /\ pc = "codec"
    /\ ops \in {<<>>, <<"decode_newlines">>}
    /\ text' = encode_newlines(text)
    /\ ops' = Append(ops, "encode_newlines")
    /\ UNCHANGED <<pc, ascii_piet, codel_size, ascii_lines, image_width,
                   image_height, codels, img, bytestring, hexdump>>

DecodeNewlines ==
    /\ pc = "codec"
    /\ ops \in {<<>>, <<"encode_newlines">>}
    /\ text' = decode_newlines(text)
    /\ ops' = Append(ops, "decode_newlines")
    /\ UNCHANGED <<pc, ascii_piet, codel_size, ascii_lines, image_width,
                   image_height, codels, img, bytestring, hexdump>>

NextCodec == EncodeNewlines \/ DecodeNewlines

SpecCodec == InitCodec /\ [][NextCodec]_vars

----------------------------------------------------------------------------
(* The conversion: ascii_to_image called on a text with a codel size.      *)

\* \n space ) 1 9 A: a line break, black, normal blue, light blue, blue with
\* the reserved lightness 11, dark blue with the noEol bit clear
ImgChars == {10, 32, 41, 49, 57, 65}

Run(n, f(_)) == [i \in 1..n |-> f(i)]

RECURSIVE JoinLines(_)
JoinLines(ls) ==
    IF ls = <<>> THEN <<>>
    ELSE IF Len(ls) = 1 THEN ls[1]
    ELSE ls[1] \o <<LF>> \o JoinLines(Tail(ls))

\* the character at column c of line r of a three-line text: 97..119, noEol set,
\* hues and lightnesses varying, none reserved
RaggedChar(r, c) == 97 + ((3 * r + c) % 23)

\* texts of three lines of 0..MaxLineLen characters each
ThreeLineTexts ==
    {JoinLines([r \in 1..3 |-> Run(ns[r], LAMBDA c : RaggedChar(r, c))]) :
        ns \in [1..3 -> 0..MaxLineLen]}

ImgInputs == Texts(ImgChars, MaxImgLen) \cup SingleCharTexts \cup ThreeLineTexts

Init ==
    /\ pc = "start"
    /\ ascii_piet \in ImgInputs
    /\ codel_size \in 1..MaxCodelSize
    /\ text = <<>>
    /\ ops = <<>>
    /\ ascii_lines = <<>>
    /\ image_width = 0
    /\ image_height = 0
    /\ codels = <<>>
    /\ img = None
    /\ bytestring = <<>>
    /\ hexdump = None

AsciiToImage ==
    /\ pc = "start"
    /\ LET r == ascii_to_image(ascii_piet, codel_size)
       IN  /\ pc' = r.outcome
           /\ ascii_lines' = r.ascii_lines
           /\ image_width' = r.image_width
           /\ image_height' = r.image_height
           /\ codels' = r.codels
           /\ img' = r.img
    /\ UNCHANGED <<ascii_piet, codel_size, text, ops, bytestring, hexdump>>

Next == AsciiToImage

Spec == Init /\ [][Next]_vars

----------------------------------------------------------------------------
(* The hex dump: xxd called on a byte string.                              *)

\* NUL, space, A, DEL, 0xff
XxdBytes == {0, 32, 65, 127, 255}

\* a run of one byte followed by a free tail, and the bytes 0, 1, 2, ...
XxdInputs ==
    {Run(n, LAMBDA i : f) \o t :
        f \in XxdBytes, n \in 0..MaxFill, t \in Texts(XxdBytes, MaxTail)}
    \cup {Run(n, LAMBDA i : i - 1) : n \in 0..MaxFill}

InitXxd ==
    /\ pc = "start"
    /\ bytestring \in XxdInputs
    /\ hexdump = None
    /\ ascii_piet = <<>>
    /\ codel_size = 1
    /\ text = <<>>
    /\ ops = <<>>
    /\ ascii_lines = <<>>
    /\ image_width = 0
    /\ image_height = 0
    /\ codels = <<>>
    /\ img = None

Xxd ==
    /\ pc = "start"
    /\ hexdump' = xxd(bytestring)
    /\ pc' = "dumped"
    /\ UNCHANGED <<ascii_piet, codel_size, text, ops, ascii_lines, image_width,
                   image_height, codels, img, bytestring>>

NextXxd == Xxd

SpecXxd == InitXxd /\ [][NextXxd]_vars

----------------------------------------------------------------------------
(* Vocabulary of the properties.                                           *)

Printable == 32..126

NoEolSet(c) == (c \div 32) % 2 = 1

Low5(c) == c % 32

\* the character code with its noEol bit cleared
ClearNoEol(c) == IF NoEolSet(c) THEN c - 32 ELSE c

Strip(s, chars) == SelectSeq(s, LAMBDA c : c \notin chars)

Low5Seq(s) == [i \in 1..Len(s) |-> Low5(s[i])]

\* position i of s holds the last character of a line
LineFinal(s, breaks, i) ==
    /\ s[i] \notin breaks
    /\ i = Len(s) \/ s[i + 1] \in breaks

\* the number of non-break characters among s[1..i]
Rank(s, breaks, i) == Cardinality({j \in 1..i : s[j] \notin breaks})

Applied(fs) == pc = "codec" /\ ops = fs

----------------------------------------------------------------------------
(* C1: packed round trip.                                                  *)

\* no literal line break, and every line-ending byte (noEol clear) printable
C1_Packed(x) ==
    \A i \in 1..Len(x) :
        /\ x[i] \notin LineBoundaries
        /\ ~NoEolSet(x[i]) => x[i] \in Printable

C1_Terminated(x) == x = <<>> \/ ~NoEolSet(x[Len(x)])

\* C1 as stated: for every packed text x over 0..127 with no literal line
\* break and every line-ending byte printable,
\* encode_newlines(decode_newlines(x)) = x.
C1_PackedRoundTrip_AsStated ==
    (Applied(<<"decode_newlines", "encode_newlines">>) /\ C1_Packed(ascii_piet))
        => text = ascii_piet

\* C1 as amended: for every such packed text x that is empty or whose last
\* byte is a line-ending byte (noEol clear),
\* encode_newlines(decode_newlines(x)) = x.
C1_PackedRoundTrip ==
    (/\ Applied(<<"decode_newlines", "encode_newlines">>)
     /\ C1_Packed(ascii_piet)
     /\ C1_Terminated(ascii_piet))
        => text = ascii_piet

\* a packed text of two lines or more, the first longer than one byte, has
\* been decoded and encoded again
C1_Witness ==
    /\ Applied(<<"decode_newlines", "encode_newlines">>)
    /\ C1_Packed(ascii_piet)
    /\ C1_Terminated(ascii_piet)
    /\ Len(ascii_piet) >= 3
    /\ NoEolSet(ascii_piet[1])
    /\ \E i \in 1..(Len(ascii_piet) - 1) : ~NoEolSet(ascii_piet[i])

----------------------------------------------------------------------------
(* C2: literal round trip.                                                 *)

C2_Literal_AsStated(x) ==
    LET ls == splitlines(x)
    IN  \A k \in 1..Len(ls) :
            /\ ls[k] # <<>>
            /\ ClearNoEol(ls[k][Len(ls[k])]) >= 32

\* C2 as stated: for every literal text x over 0..127 with no empty lines
\* whose every line-ending character is >= 32 after its noEol bit is cleared,
\* decode_newlines(encode_newlines(x)) = x.
C2_LiteralRoundTrip_AsStated ==
    (Applied(<<"encode_newlines", "decode_newlines">>) /\ C2_Literal_AsStated(ascii_piet))
        => text = ascii_piet

\* lines separated by single "\n", none empty, every other character with its
\* noEol bit set, every line-ending character >= 32 after the bit is cleared
C2_Literal(x) ==
    /\ \A i \in 1..Len(x) : x[i] = LF \/ NoEolSet(x[i])
    /\ x # <<>> => (x[1] # LF /\ x[Len(x)] # LF)
    /\ \A i \in 1..(Len(x) - 1) : ~(x[i] = LF /\ x[i + 1] = LF)
    /\ \A i \in 1..Len(x) : LineFinal(x, {LF}, i) => ClearNoEol(x[i]) >= 32

\* C2 as amended: for every literal text x over 0..127 whose lines are
\* separated by single "\n" characters, with no empty line (no leading,
\* trailing or doubled "\n"), whose every other character has its noEol bit
\* set and whose every line-ending character is >= 32 after that bit is
\* cleared, decode_newlines(encode_newlines(x)) = x.
C2_LiteralRoundTrip ==
    (Applied(<<"encode_newlines", "decode_newlines">>) /\ C2_Literal(ascii_piet))
        => text = ascii_piet

\* a literal text of two lines or more, one longer than one character, has
\* been encoded and decoded again
C2_Witness ==
    /\ Applied(<<"encode_newlines", "decode_newlines">>)
    /\ C2_Literal(ascii_piet)
    /\ Len(ascii_piet) >= 4
    /\ \E i \in 1..Len(ascii_piet) : ascii_piet[i] = LF

----------------------------------------------------------------------------
(* C9: the packed form stays printable.                                    *)

\* C9: for every literal text of printable characters and line breaks,
\* encode_newlines returns only printable characters (so no line break), as
\* many as the input has characters that are not line breaks, and every
\* line-final character of the input comes out with its noEol bit clear.
C9_PackedPrintable ==
    (/\ Applied(<<"encode_newlines">>)
     /\ \A i \in 1..Len(ascii_piet) : ascii_piet[i] \in Printable \cup LineBoundaries)
        => /\ \A j \in 1..Len(text) : text[j] \in Printable
           /\ Len(text) = Len(Strip(ascii_piet, LineBoundaries))
           /\ \A i \in 1..Len(ascii_piet) :
                  LineFinal(ascii_piet, LineBoundaries, i)
                      => ~NoEolSet(text[Rank(ascii_piet, LineBoundaries, i)])

\* a printable text with an empty line between two lines, the first ending
\* in a character below 64, has been encoded
C9_Witness ==
    /\ Applied(<<"encode_newlines">>)
    /\ \A i \in 1..Len(ascii_piet) : ascii_piet[i] \in Printable \cup LineBoundaries
    /\ \E i \in 1..(Len(ascii_piet) - 3) :
           /\ ascii_piet[i] \in 32..63
           /\ ascii_piet[i + 1] \in LineBoundaries
           /\ ascii_piet[i + 2] \in LineBoundaries
           /\ ascii_piet[i + 3] \in Printable
    /\ Len(text) = 2

----------------------------------------------------------------------------
(* C10: normalisation never changes a colour.                              *)

\* C10: encode_newlines and decode_newlines each keep, in order and with the
\* low five bits unchanged, every character that is not a line break (for
\* encode_newlines the boundaries of splitlines, for decode_newlines "\n"),
\* and stay within 0..127; and decode_newlines(encode_newlines(t)) has, line
\* breaks ignored, the hue and lightness bits of t, line breaks ignored.
C10_ColoursKept ==
    /\ Applied(<<"encode_newlines">>)
           => /\ Low5Seq(text) = Low5Seq(Strip(ascii_piet, LineBoundaries))
              /\ \A j \in 1..Len(text) : text[j] \in AllChars
    /\ Applied(<<"decode_newlines">>)
           => /\ Low5Seq(Strip(text, {LF})) = Low5Seq(Strip(ascii_piet, {LF}))
              /\ \A j \in 1..Len(text) : text[j] \in AllChars
    /\ Applied(<<"encode_newlines", "decode_newlines">>)
           => Low5Seq(Strip(text, LineBoundaries))
                  = Low5Seq(Strip(ascii_piet, LineBoundaries))

\* a text with a line break and a character whose bits 5 and 6 the
\* normalisation changed has been encoded and decoded
C10_Witness ==
    /\ Applied(<<"encode_newlines", "decode_newlines">>)
    /\ \E i \in 1..Len(ascii_piet) : ascii_piet[i] \in LineBoundaries
    /\ Strip(text, LineBoundaries) # Strip(ascii_piet, LineBoundaries)
    /\ Len(Strip(text, LineBoundaries)) >= 3

----------------------------------------------------------------------------
(* Vocabulary of the properties about the codel grid.                      *)

Hue(c) == c % 8

Lightness(c) == (c \div 8) % 4

\* the lightness is dark, normal or light, or the hue ignores it
Defined(c) == Hue(c) \in {0, 7} \/ Lightness(c) # 3

\* the colour table: levels dark = (0, 192), normal = (0, 255),
\* light = (192, 255); black and white are always normal
TableRGB(c) ==
    LET level == IF Hue(c) \in {0, 7} THEN 1 ELSE Lightness(c)
        low == IF level = 2 THEN 192 ELSE 0
        high == IF level = 0 THEN 192 ELSE 255
        channel(bit) == IF (Hue(c) \div bit) % 2 = 1 THEN high ELSE low
    IN  <<channel(4), channel(2), channel(1)>>

\* the codel at row r, column c, both from 0
Cell(r, c) == codels[r * image_width + c + 1]

\* the lines of the normalised text
NormalLines == splitlines(decode_newlines(encode_newlines(ascii_piet)))

\* the indices in codels of the cells that are not padding, in row-major order
TextCells(lines) ==
    Join([r \in 1..Len(lines) |->
            [c \in 1..Len(lines[r]) |-> (r - 1) * image_width + c]])

\* the colours the loop body produces for the characters whose lightness is
\* not reserved
ProducedColours == {codel_rgb(c, Unbound).rgb : c \in {d \in AllChars : Defined(d)}}

----------------------------------------------------------------------------
(* C3: colour decoding is total and pure.                                  *)

\* C3: the character-to-RGB step never fails, whatever the character code,
\* and two codels of a grid whose characters have the same hue and lightness
\* bits have the same RGB.
C3_ColourTotalPure ==
    /\ pc # "UnboundLocalError"
    /\ pc = "returned" =>
           \A r1, r2 \in 1..image_height : \A c1, c2 \in 1..image_width :
               Low5(ascii_lines[r1][c1]) = Low5(ascii_lines[r2][c2])
                   => Cell(r1 - 1, c1 - 1) = Cell(r2 - 1, c2 - 1)

----------------------------------------------------------------------------
(* C4: the colour table.                                                   *)

\* C4: in a returned grid the codel of every character of the text whose
\* lightness is dark, normal or light, or whose hue is black or white, is the
\* colour of the table for its hue and lightness bits alone (the noEol bit
\* plays no part): black is (0,0,0) and white (255,255,255) for every
\* lightness; and the loop body produces exactly 20 colours.
C4_ColourTable ==
    /\ Cardinality(ProducedColours) = 20
    /\ pc = "returned" =>
           LET src == Strip(ascii_piet, LineBoundaries)
               at == TextCells(NormalLines)
           IN  /\ Len(at) = Len(src)
               /\ \A k \in 1..Len(src) :
                      /\ Defined(src[k]) => codels[at[k]] = TableRGB(src[k])
                      /\ Hue(src[k]) = 0 => codels[at[k]] = <<0, 0, 0>>
                      /\ Hue(src[k]) = 7 => codels[at[k]] = <<255, 255, 255>>

\* a grid has been returned for a text with a dark codel whose noEol bit is
\* clear and a light codel whose noEol bit is set
C4_Witness ==
    /\ pc = "returned"
    /\ \E i, j \in 1..Len(ascii_piet) : ascii_piet[i] = 65 /\ ascii_piet[j] = 49

----------------------------------------------------------------------------
(* C5: grid shape and padding.                                             *)

\* the grid is that of these lines: height, width, row-major cells, the cells
\* of the characters (of a defined lightness) in their table colour, the
\* other cells black
C5_GridOf(lines) ==
    /\ image_height = Len(lines)
    /\ image_width = Max({Len(lines[k]) : k \in 1..Len(lines)} \cup {0})
    /\ Len(codels) = image_width * image_height
    /\ Len(ascii_lines) = image_height
    /\ \A r \in 1..image_height : Len(ascii_lines[r]) = image_width
    /\ \A r \in 1..image_height : \A c \in 1..image_width :
           IF c <= Len(lines[r])
           THEN Defined(lines[r][c]) => Cell(r - 1, c - 1) = TableRGB(lines[r][c])
           ELSE Cell(r - 1, c - 1) = <<0, 0, 0>>

\* C5 as stated: the grid returned for a text is the grid of the lines the
\* text splits into on its line breaks.
C5_GridShape_AsStated == pc = "returned" => C5_GridOf(splitlines(ascii_piet))

\* C5 as amended: the grid returned for a text is the grid of the lines of
\* the normalised text decode_newlines(encode_newlines(text)): height = number
\* of these lines, width = the longest, width*height cells in row-major order,
\* cell (r, c) with c < len(line r) in the table colour of character c of line
\* r when its lightness is not reserved, every other cell black (0,0,0).
C5_GridShape == pc = "returned" => C5_GridOf(NormalLines)

\* the grid of lines of lengths 3, 5 and 2 has been returned
C5_Witness ==
    /\ pc = "returned"
    /\ image_width = 5
    /\ image_height = 3
    /\ Len(NormalLines) = 3
    /\ Len(NormalLines[1]) = 3
    /\ Len(NormalLines[2]) = 5
    /\ Len(NormalLines[3]) = 2
    /\ Cell(0, 3) = <<0, 0, 0>>

----------------------------------------------------------------------------
(* C6: scaling.                                                            *)

\* C6: the image returned has size (w*s, h*s) and its pixel (x, y) is the
\* grid cell (x div s, y div s); with s = 1 it is the grid itself.
C6_Scaling ==
    pc = "returned" =>
        LET W == image_width * codel_size
            H == image_height * codel_size
        IN  /\ img.size = <<W, H>>
            /\ Len(img.data) = W * H
            /\ \A x \in 0..(W - 1) : \A y \in 0..(H - 1) :
                   img.data[y * W + x + 1] = Cell(y \div codel_size, x \div codel_size)
            /\ codel_size = 1 => img.data = codels

\* a 2x1 grid of two colours has been returned at codel size 3
C6_Witness ==
    /\ pc = "returned"
    /\ codel_size = 3
    /\ image_width = 2
    /\ image_height = 1
    /\ codels[1] # codels[2]
    /\ img.size = <<6, 3>>

----------------------------------------------------------------------------
(* C8: empty input is a fatal error.                                       *)

\* C8: for the empty text and for a text made only of line breaks, the
\* conversion ends in an error and returns no image and no grid.
C8_EmptyInputFails ==
    (pc # "start" /\ \A i \in 1..Len(ascii_piet) : ascii_piet[i] \in LineBoundaries)
        => /\ pc = "ValueError"
           /\ img = None
           /\ codels = <<>>

\* the conversion of a text of two line breaks or more has ended
C8_Witness ==
    /\ pc = "ValueError"
    /\ Len(ascii_piet) >= 2
    /\ \A i \in 1..Len(ascii_piet) : ascii_piet[i] \in LineBoundaries

----------------------------------------------------------------------------
(* C7: the format of the hex dump.                                         *)

\* the 8 lowercase hexadecimal digits of n
Hex8(n) == [i \in 1..8 |-> HexChar((n \div (16 ^ (8 - i))) % 16)]

\* the 40 characters of the hex field of a row: the two digits of byte b
\* (from 0) at 5 * (b div 2) + 2 * (b mod 2) + 1, spaces elsewhere
HexField(block) ==
    [p \in 1..40 |->
        LET b == 2 * ((p - 1) \div 5) + ((p - 1) % 5) \div 2
        IN  IF (p - 1) % 5 < 4 /\ b < Len(block)
            THEN HexChar(IF (p - 1) % 5 \in {0, 2} THEN block[b + 1] \div 16
                         ELSE block[b + 1] % 16)
            ELSE 32]

AsciiField(block) ==
    [b \in 1..Len(block) |-> IF block[b] \in 32..126 THEN block[b] ELSE 46]

\* row k (from 0) of the dump of bytes
C7_Row(bytes, k) ==
    LET last == IF 16 * k + 16 < Len(bytes) THEN 16 * k + 16 ELSE Len(bytes)
        block == SubSeq(bytes, 16 * k + 1, last)
    IN  Hex8(16 * k) \o <<58, 32>> \o HexField(block) \o <<32>> \o AsciiField(block)

\* C7: xxd(b) is ceil(n/16) rows, and row k is the offset 16*k in 8 lowercase
\* hex digits, ": ", the bytes in 2-byte hex groups separated by spaces and
\* padded to 40 characters, a space, and one character per byte of the row
\* (32..126 verbatim, "." otherwise); the last row too.
C7_HexDumpFormat ==
    pc = "dumped" =>
        LET n == Len(bytestring)
            rows == (n + 15) \div 16
        IN  hexdump = JoinLines([k \in 1..rows |-> C7_Row(bytestring, k - 1)])

====
